---- MODULE Spec2Model ----
(***************************************************************************)
(* Model of export_hetero_graph_to_json (src/export_graph_to_json.py).     *)
(*                                                                         *)
(* One call of the function is a sequence of steps, one per block of the   *)
(* function body: airport nodes, lineage nodes, the four relation blocks,  *)
(* the assembly of output_data and the save to the output path.  The       *)
(* inputs of the call are drawn in Init and never change.                  *)
(*                                                                         *)
(* Conventions                                                             *)
(*   - Python None is <<>> and a present value v is <<v>>.                 *)
(*   - A float is counted in halves: 84 is 42.0, 3 is 1.5.                 *)
(*   - An integer value carries its Python type, "int" or "int64"          *)
(*     (numpy.int64, what np.random.choice hands back).                    *)
(*   - The text of a file is the sequence of chunks json.dump wrote.       *)
(*                                                                         *)
(*   - A cell of flights_df is a function of its row number and column,   *)
(*     so that every cell of a table differs from every other.             *)
(*                                                                         *)
(* The argument metadata_df is never read by the function and is left out. *)
(***************************************************************************)
EXTENDS Integers, Sequences, FiniteSets, TLC

VARIABLES
    airport_to_idx,   \* argument: airport code -> index
    lineage_to_idx,   \* argument: lineage name -> index
    sample_size,      \* argument: None or a dict over 'airports','lineages','edges'
    hg,               \* argument: relation tag -> [edge_index, edge_attr]
    idx_to_airport,   \* argument: None or index -> airport code
    idx_to_lineage,   \* argument: None or index -> lineage name
    flights_df,       \* argument: None or [columns, rows], the auxiliary table
    pc,               \* the block of the function body to run next
    airport_indices,  \* [elems, dtype]: the selected airport indices
    lineage_indices,  \* [elems, dtype]: the selected lineage indices
    airports,         \* list of airport node records
    lineages,         \* list of lineage node records
    edges,            \* list of link records
    edge_origin,      \* history: for each link, <<relation, input edge number>>
    output_data,      \* None or the assembled document
    file,             \* [exists, text]: what is at the output path
    file_before,      \* history: what was at the output path when the call began
    outcome,          \* "running", "returned", "ValueError" or "TypeError"
    run,              \* 1 for the first call, 2 for the repeated call
    rng,              \* the draws of np.random under the seed of the first call
    set_order,        \* None, or the order this process iterates the set of link types in
    at,               \* dashboard script: the block to run next
    all_flights,      \* dashboard: df, the concatenated flight lists, rows [origin, destination]
    airports_df,      \* dashboard: the airports table
    graph_data,       \* dashboard: what load_data returns
    route_data,       \* dashboard: the routes with their flight_count
    flight_threshold, \* dashboard: NaN or the slider's value
    filtered_routes,  \* dashboard: the routes at or above the threshold
    fig,              \* dashboard: the route traces added to the figure
    script_outcome    \* dashboard: "running", "rendered" or the exception raised

inputs == <<airport_to_idx, lineage_to_idx, sample_size, hg, idx_to_airport,
           idx_to_lineage, flights_df>>
argVars == <<airport_to_idx, lineage_to_idx, sample_size, idx_to_airport,
            idx_to_lineage, flights_df>>
nodeVars == <<airport_indices, lineage_indices, airports, lineages>>
linkVars == <<edges, edge_origin>>
vars == <<airport_to_idx, lineage_to_idx, sample_size, hg, idx_to_airport,
          idx_to_lineage, flights_df, pc, airport_indices,
          lineage_indices, airports, lineages, edges, edge_origin, output_data,
          file, file_before, outcome, run, rng, set_order,
          at, all_flights, airports_df, graph_data, route_data, flight_threshold,
          filtered_routes, fig, script_outcome>>
dashVars == <<at, all_flights, airports_df, graph_data, route_data, flight_threshold,
              filtered_routes, fig, script_outcome>>

(***************************************************************************)
(* Bounds of the model.                                                    *)
(***************************************************************************)
MaxNodes == 2
MaxLimit == 3
MaxEdges == 2
MaxRows == 2
MaxFlights == 3

(***************************************************************************)
(* Python values.                                                          *)
(***************************************************************************)
None == <<>>
Some(v) == <<v>>
Min(a, b) == IF a <= b THEN a ELSE b
Range(s) == {s[i] : i \in 1..Len(s)}

\* Mutant of Sorted: descending.
SortedDescending(S) ==
    CHOOSE s \in [1..Cardinality(S) -> S] :
        \A i, j \in 1..Cardinality(S) : i < j => s[i] > s[j]

\* sorted(S) for a set of integers.
Sorted(S) ==
    CHOOSE s \in [1..Cardinality(S) -> S] :
        \A i, j \in 1..Cardinality(S) : i < j => s[i] < s[j]

\* float(x) of a whole number x, in halves.
PyFloat(x) == 2 * x

\* int(f) of a non-negative float f in halves: truncation.
PyInt(f) == f \div 2

\* repr of a non-negative float in halves, as json.dump writes it.
FloatRepr(f) == ToString(f \div 2) \o (IF f % 2 = 0 THEN ".0" ELSE ".5")

\* `if sample_size`: a dict is true when it is not None and not empty.
Truthy(d) == d # None /\ DOMAIN d[1] # {}

\* `sample_size and key in sample_size`
HasLimit(key) == Truthy(sample_size) /\ key \in DOMAIN sample_size[1]

RelTypes == {"flight", "sampled_at", "evolves_from", "temporal"}

(***************************************************************************)
(* The arguments of a call.                                                *)
(***************************************************************************)
AirportCode(k) == IF k = 0 THEN "JFK" ELSE IF k = 1 THEN "LAX" ELSE "AP" \o ToString(k)
LineageName(k) == IF k = 0 THEN "B.1" ELSE IF k = 1 THEN "B.1.1" ELSE "L" \o ToString(k)

\* A dense mapping of N airport codes to 0..N-1, in either order.
AirportMap(N, rev) ==
    [c \in {AirportCode(k) : k \in 0..(N - 1)} |->
        LET k == CHOOSE j \in 0..(N - 1) : AirportCode(j) = c
        IN  IF rev THEN N - 1 - k ELSE k]

LineageMap(N, rev) ==
    [c \in {LineageName(k) : k \in 0..(N - 1)} |->
        LET k == CHOOSE j \in 0..(N - 1) : LineageName(j) = c
        IN  IF rev THEN N - 1 - k ELSE k]

\* The values a caller may give as a limit; -1 stands for the negative ones.
Limits == (0..MaxLimit) \cup {-1}
Dicts(keys) == UNION {[K -> Limits] : K \in SUBSET keys}

\* Number of attribute columns of a relation's edge_attr, shape (E, k).
Width(rel) ==
    CASE rel = "flight" -> 1
      [] rel = "sampled_at" -> 2
      [] rel = "evolves_from" -> 1
      [] rel = "temporal" -> 3

\* Attribute row of input edge number e: a different row for every edge,
\* every value a float with a fractional part (10(e+1) + c + 0.5).
AttrRow(rel, e) == [c \in 1..Width(rel) |-> 20 * (e + 1) + 2 * c + 1]
AttrRows(rel, E) == [k \in 1..E |-> AttrRow(rel, k - 1)]

\* Endpoint pairs of an input edge: the pairs over two nodes, one with a
\* negative source and one with a destination beyond every index.
EdgePairs == ((0..1) \X (0..1)) \cup {<<-1, 0>>, <<0, MaxNodes + 1>>}
EdgeLists == UNION {[1..n -> EdgePairs] : n \in 0..MaxEdges}

Relation(edge_index, with_attr, rel) ==
    [edge_index |-> edge_index,
     edge_attr |-> IF with_attr THEN Some(AttrRows(rel, Len(edge_index))) ELSE None]

Absent == [exists |-> FALSE, text |-> <<>>]
Stale == [exists |-> TRUE, text |-> <<"stale">>]

\* A call: the two mappings, sample_size, the graph and the file at the
\* output path; no reverse mappings and no auxiliary table unless set.
Arguments(a, l, s, g, f) ==
    [a |-> a, l |-> l, s |-> s, g |-> g, f |-> f, ia |-> None, il |-> None, df |-> None]

\* Calls that vary the node populations and the node limits.
NodeCases ==
    {Arguments(AirportMap(na, ra), LineageMap(nl, rl), s,
               [rel \in {"flight", "sampled_at"} |->
                   IF rel = "flight"
                   THEN Relation(<<<<0, 1>>, <<0, 0>>>>, TRUE, rel)
                   ELSE Relation(<<<<0, 0>>>>, TRUE, rel)],
               f) :
        na \in 0..MaxNodes, ra \in BOOLEAN, nl \in 0..MaxNodes, rl \in BOOLEAN,
        s \in {None} \cup {Some(d) : d \in Dicts({"airports", "lineages"})},
        f \in {Absent, Stale}}

\* Calls that vary one relation's edge list, its attributes and the edge cap.
EdgeCases ==
    {Arguments(AirportMap(2, FALSE), LineageMap(2, TRUE), s,
               [r \in {rel} |-> Relation(ei, wa, rel)], Stale) :
        rel \in RelTypes, ei \in EdgeLists, wa \in BOOLEAN,
        s \in {None} \cup {Some(d) : d \in [{"edges"} -> Limits]}
                \cup {Some([k \in {"airports", "lineages", "edges"} |-> 1])}}

\* Calls on a graph that has all four relations.
FullCases ==
    {Arguments(AirportMap(2, TRUE), LineageMap(2, FALSE), s,
               [rel \in RelTypes |->
                   CASE rel = "flight" -> Relation(<<<<0, 1>>, <<1, 0>>>>, wa, rel)
                     [] rel = "sampled_at" -> Relation(<<<<0, 0>>, <<1, 1>>>>, wa, rel)
                     [] rel = "evolves_from" -> Relation(<<<<0, 1>>>>, wa, rel)
                     [] rel = "temporal" -> Relation(<<<<1, 0>>>>, wa, rel)],
               Absent) :
        wa \in BOOLEAN,
        s \in {None, Some([k \in {} |-> 0]), Some([k \in {"edges"} |-> 1]),
               Some([k \in {"lineages"} |-> 1])}}

\* The graph of the spec's scenario: one flight edge (0,1) of weight 42.
ScenarioGraph ==
    [rel \in {"flight"} |->
        [edge_index |-> <<<<0, 1>>>>, edge_attr |-> Some(<<<<PyFloat(42)>>>>)]]

\* Calls of the spec's scenario, with any lineage population.
ScenarioCases ==
    {Arguments(AirportMap(2, FALSE), LineageMap(nl, FALSE), None, ScenarioGraph, f) :
        nl \in 0..MaxNodes, f \in {Absent, Stale}}

\* {v: k for k, v in m.items()} of a one-to-one mapping m.
Inverse(m) == [i \in {m[k] : k \in DOMAIN m} |-> CHOOSE k \in DOMAIN m : m[k] = i]

\* Calls that pass reverse mappings: none, the inverse of the forward mapping,
\* or a mapping over the same indices that names them the other way round.
ReverseCases ==
    {[Arguments(AirportMap(2, FALSE), LineageMap(2, TRUE), s,
                [rel \in {"sampled_at"} |-> Relation(<<<<0, 1>>>>, FALSE, rel)],
                Absent) EXCEPT !.ia = ia, !.il = il] :
        ia \in {None} \cup {Some(Inverse(AirportMap(2, r))) : r \in BOOLEAN},
        il \in {None} \cup {Some(Inverse(LineageMap(2, r))) : r \in BOOLEAN},
        s \in {None, Some([k \in {"airports", "lineages"} |-> 1])}}

\* The attribute columns flights_df can have, apart from origin/destination.
OriginColumns == {"Latitude", "Longitude", "City", "Country"}
DestinationColumns == {"Latitude_destination", "Longitude_destination",
                       "City_destination", "Country_destination"}

\* The cell of row number r in an attribute column: a different value in
\* every row and column, coordinates with a fractional part.
Cell(r, col) ==
    CASE col = "Latitude" -> 20 * r + 1
      [] col = "Longitude" -> 20 * r + 3
      [] col = "Latitude_destination" -> 20 * r + 5
      [] col = "Longitude_destination" -> 20 * r + 7
      [] col = "City" -> "City" \o ToString(r)
      [] col = "Country" -> "Country" \o ToString(r)
      [] col = "City_destination" -> "DestCity" \o ToString(r)
      [] col = "Country_destination" -> "DestCountry" \o ToString(r)

\* A flights_df: its attribute columns and, row by row, origin and destination.
TableCodes == {"JFK", "LAX", "XXX"}
Tables ==
    {[columns |-> cols, rows |-> rows] :
        cols \in {OriginColumns \cup DestinationColumns, OriginColumns, DestinationColumns,
                  {"Latitude", "Longitude", "Latitude_destination", "Longitude_destination"},
                  {"City", "Country", "City_destination", "Country_destination"}, {}},
        rows \in UNION {[1..n -> [origin : TableCodes, destination : TableCodes]] :
                            n \in 0..MaxRows}}

\* Calls that pass an auxiliary table.
TableCases ==
    {[Arguments(AirportMap(2, FALSE), LineageMap(1, FALSE), None,
                [rel \in {"flight"} |-> Relation(<<<<0, 1>>>>, FALSE, rel)],
                Absent) EXCEPT !.df = Some(t)] :
        t \in Tables}

\* Calls whose edge cap keeps two of three flight edges, in the order drawn.
OrderCases ==
    {Arguments(AirportMap(2, FALSE), LineageMap(2, FALSE), Some(d),
               [rel \in {"flight", "sampled_at"} |->
                   IF rel = "flight"
                   THEN Relation(<<<<0, 1>>, <<1, 0>>, <<0, 0>>>>, TRUE, rel)
                   ELSE Relation(<<<<1, 0>>, <<0, 1>>>>, TRUE, rel)],
               Absent) :
        d \in {[k \in {"edges"} |-> 2], [k \in {"edges", "lineages"} |-> 2]}}

Calls ==
    NodeCases \cup EdgeCases \cup FullCases \cup ScenarioCases \cup ReverseCases
        \cup TableCases \cup OrderCases

NoDraws == [airports |-> {}, lineages |-> {}, flight |-> <<>>, sampled_at |-> <<>>,
            evolves_from |-> <<>>, temporal |-> <<>>]

\* The export function at the start of call c.
CallBegins(c) ==
    /\  /\ airport_to_idx = c.a
        /\ lineage_to_idx = c.l
        /\ sample_size = c.s
        /\ hg = c.g
        /\ idx_to_airport = c.ia
        /\ idx_to_lineage = c.il
        /\ flights_df = c.df
        /\ file = c.f
        /\ file_before = c.f
    /\ pc = "airports"
    /\ airport_indices = [elems |-> {}, dtype |-> "int"]
    /\ lineage_indices = [elems |-> {}, dtype |-> "int"]
    /\ airports = <<>>
    /\ lineages = <<>>
    /\ edges = <<>>
    /\ edge_origin = <<>>
    /\ output_data = None
    /\ outcome = "running"
    /\ run = 1
    /\ rng = NoDraws
    /\ set_order = None

\* The dashboard script is not running.
NoDashboard ==
    /\ at = "off"
    /\ all_flights = <<>>
    /\ airports_df = <<>>
    /\ graph_data = <<>>
    /\ route_data = {}
    /\ flight_threshold = <<>>
    /\ filtered_routes = {}
    /\ fig = {}
    /\ script_outcome = "off"

Init == NoDashboard /\ \E c \in Calls : CallBegins(c)

(***************************************************************************)
(* Failure of the call: the exception leaves the function.                 *)
(***************************************************************************)
Raise(exc) ==
    /\ pc' = "done"
    /\ outcome' = exc

(***************************************************************************)
(* Nodes (lines 49-53 and 85-139).                                         *)
(***************************************************************************)
\* idx_to_airport[idx] / idx_to_lineage[idx]: the mapping passed in, or the
\* forward mapping inverted when none was passed.
IdxToAirport(idx) ==
    IF idx_to_airport = None
    THEN CHOOSE k \in DOMAIN airport_to_idx : airport_to_idx[k] = idx
    ELSE idx_to_airport[1][idx]

IdxToLineage(idx) ==
    IF idx_to_lineage = None
    THEN CHOOSE k \in DOMAIN lineage_to_idx : lineage_to_idx[k] = idx
    ELSE idx_to_lineage[1][idx]

\* Mutant of NodeSampleSize: max written for min.
NodeSampleSizeMax(limit, population) == IF limit >= population THEN limit ELSE population

\* The size handed to np.random.choice for a node type.
NodeSampleSize(limit, population) == Min(limit, population)

\* np.random.choice(a, size, replace=False) on a list of n indices, as a set:
\* the subsets of size `size`.
ChoiceSets(n, size) == {S \in SUBSET (0..(n - 1)) : Cardinality(S) = size}

\* The selections the sampling block of a node type can end with.
NodeSelections(key, n) ==
    IF HasLimit(key)
    THEN {[elems |-> S, dtype |-> "int64"] :
            S \in ChoiceSets(n, NodeSampleSize(sample_size[1][key], n))}
    ELSE {[elems |-> 0..(n - 1), dtype |-> "int"]}

\* np.random.choice raises ValueError on a negative size.
NodeSampleFails(key, n) ==
    HasLimit(key) /\ NodeSampleSize(sample_size[1][key], n) < 0

\* row.get(col, default) on row number r of flights_df; a default is kept as
\* the Python value it is, a coordinate cell is a float.
RowGet(df, r, col, default) ==
    IF col \in df.columns
    THEN IF col \in {"Latitude", "Longitude", "Latitude_destination", "Longitude_destination"}
         THEN [v |-> Cell(r, col), t |-> "float"]
         ELSE Cell(r, col)
    ELSE default

PyZero == [v |-> 0, t |-> "int"]

\* float(x) of an int or a float.
ToFloat(x) == IF x.t = "int" THEN PyFloat(x.v) ELSE x.v

\* Row number of the row drop_duplicates(col) keeps for a code: its first.
FirstRow(df, col, code) ==
    CHOOSE r \in 1..Len(df.rows) :
        /\ df.rows[r][col] = code
        /\ \A q \in 1..(r - 1) : df.rows[q][col] # code

\* Mutant of AirportCoords: a destination row overwrites the origin's entry.
AirportCoordsOverwritten ==
    IF flights_df = None
    THEN <<>>
    ELSE LET df == flights_df[1]
             origins == {df.rows[r].origin : r \in 1..Len(df.rows)}
                            \cap DOMAIN airport_to_idx
             destinations == {df.rows[r].destination : r \in 1..Len(df.rows)}
                                \cap DOMAIN airport_to_idx
         IN  [code \in origins \cup destinations |->
                IF code \notin destinations
                THEN LET r == FirstRow(df, "origin", code)
                     IN  [lat |-> RowGet(df, r, "Latitude", PyZero),
                          lon |-> RowGet(df, r, "Longitude", PyZero),
                          city |-> RowGet(df, r, "City", "Unknown City"),
                          country |-> RowGet(df, r, "Country", "Unknown Country")]
                ELSE LET r == FirstRow(df, "destination", code)
                     IN  [lat |-> RowGet(df, r, "Latitude_destination", PyZero),
                          lon |-> RowGet(df, r, "Longitude_destination", PyZero),
                          city |-> RowGet(df, r, "City_destination", ""),
                          country |-> RowGet(df, r, "Country_destination", "")]]

\* airport_coords after the two passes over flights_df (lines 63-83).
AirportCoords ==
    IF flights_df = None
    THEN <<>>
    ELSE LET df == flights_df[1]
             origins == {df.rows[r].origin : r \in 1..Len(df.rows)}
                            \cap DOMAIN airport_to_idx
             destinations == ({df.rows[r].destination : r \in 1..Len(df.rows)}
                                \cap DOMAIN airport_to_idx) \ origins
         IN  [code \in origins \cup destinations |->
                IF code \in origins
                THEN LET r == FirstRow(df, "origin", code)
                     IN  [lat |-> RowGet(df, r, "Latitude", PyZero),
                          lon |-> RowGet(df, r, "Longitude", PyZero),
                          city |-> RowGet(df, r, "City", "Unknown City"),
                          country |-> RowGet(df, r, "Country", "Unknown Country")]
                ELSE LET r == FirstRow(df, "destination", code)
                     IN  [lat |-> RowGet(df, r, "Latitude_destination", PyZero),
                          lon |-> RowGet(df, r, "Longitude_destination", PyZero),
                          city |-> RowGet(df, r, "City_destination", ""),
                          country |-> RowGet(df, r, "Country_destination", "")]]

\* coords = airport_coords.get(airport_code, {}) and coords.get(key, default)
CoordsGet(airport_code, key, default) ==
    IF airport_code \in DOMAIN AirportCoords
    THEN AirportCoords[airport_code][key]
    ELSE default

AirportNode(idx, dtype) ==
    [id |-> "airport_" \o ToString(idx),
     index |-> [v |-> idx, t |-> dtype],
     code |-> IdxToAirport(idx),
     type |-> "airport",
     lat |-> ToFloat(CoordsGet(IdxToAirport(idx), "lat", PyZero)),
     lon |-> ToFloat(CoordsGet(IdxToAirport(idx), "lon", PyZero)),
     city |-> CoordsGet(IdxToAirport(idx), "city", ""),
     country |-> CoordsGet(IdxToAirport(idx), "country", "")]

\* Mutant of LineageNode: the id carries the airport prefix.
LineageNodeAirportId(idx, dtype) ==
    [id |-> "airport_" \o ToString(idx),
     index |-> [v |-> idx, t |-> dtype],
     name |-> IdxToLineage(idx),
     type |-> "lineage"]

LineageNode(idx, dtype) ==
    [id |-> "lineage_" \o ToString(idx),
     index |-> [v |-> idx, t |-> dtype],
     name |-> IdxToLineage(idx),
     type |-> "lineage"]

AirportNodes ==
    /\ pc = "airports"
    /\ LET n == Cardinality(DOMAIN airport_to_idx)
       IN  IF NodeSampleFails("airports", n)
           THEN /\ Raise("ValueError")
                /\ UNCHANGED <<nodeVars, rng>>
           ELSE /\ \E sel \in NodeSelections("airports", n) :
                    /\ run = 2 => sel.elems = rng.airports
                    /\ airport_indices' = sel
                    /\ airports' = [i \in 1..Cardinality(sel.elems) |->
                                       AirportNode(Sorted(sel.elems)[i], sel.dtype)]
                    /\ rng' = [rng EXCEPT !.airports = sel.elems]
                /\ pc' = "lineages"
                /\ UNCHANGED <<lineage_indices, lineages, outcome>>
    /\ UNCHANGED <<dashVars, inputs, linkVars, output_data, file, file_before, run, set_order>>

LineageNodes ==
    /\ pc = "lineages"
    /\ LET n == Cardinality(DOMAIN lineage_to_idx)
       IN  IF NodeSampleFails("lineages", n)
           THEN /\ Raise("ValueError")
                /\ UNCHANGED <<nodeVars, rng>>
           ELSE /\ \E sel \in NodeSelections("lineages", n) :
                    /\ run = 2 => sel.elems = rng.lineages
                    /\ lineage_indices' = sel
                    /\ lineages' = [i \in 1..Cardinality(sel.elems) |->
                                       LineageNode(Sorted(sel.elems)[i], sel.dtype)]
                    /\ rng' = [rng EXCEPT !.lineages = sel.elems]
                /\ pc' = "flight"
                /\ UNCHANGED <<airport_indices, airports, outcome>>
    /\ UNCHANGED <<dashVars, inputs, linkVars, output_data, file, file_before, run, set_order>>
(***************************************************************************)
(* Edges (lines 141-247).                                                  *)
(***************************************************************************)
\* max_edges_per_type = sample_size.get('edges', None) if sample_size else None
MaxEdgesPerType ==
    IF HasLimit("edges") THEN Some(sample_size[1]["edges"]) ELSE None

\* `max_edges and num_edges > max_edges`: None and 0 are false.
Subsamples(num_edges, max_edges) ==
    /\ max_edges # None
    /\ max_edges[1] # 0
    /\ num_edges > max_edges[1]

\* np.random.choice(num_edges, max_edges, replace=False) raises ValueError
\* on a negative size.
SampleEdgesFails(num_edges, max_edges) ==
    Subsamples(num_edges, max_edges) /\ max_edges[1] < 0

\* The index arrays sample_edges can keep: a draw without replacement, in
\* the order drawn, or every column in place when it returns edge_index.
SampleEdges(num_edges, max_edges) ==
    IF Subsamples(num_edges, max_edges)
    THEN {s \in [1..max_edges[1] -> 0..(num_edges - 1)] :
            \A i, j \in 1..max_edges[1] : i # j => s[i] # s[j]}
    ELSE {[i \in 1..num_edges |-> i - 1]}

\* The selected sets an edge of a relation is tested against.
SrcSet(rel) ==
    IF rel = "flight" THEN airport_indices.elems ELSE lineage_indices.elems
\* Mutant of DstSet: the destination is tested against the source's set.
DstSetOfSource(rel) == SrcSet(rel)

DstSet(rel) ==
    IF rel \in {"flight", "sampled_at"}
    THEN airport_indices.elems ELSE lineage_indices.elems

\* Mutant of Included: the destination is not tested.
IncludedSrcOnly(rel, src, dst) == src \in SrcSet(rel)

\* `src in ..._indices and dst in ..._indices`
Included(rel, src, dst) == src \in SrcSet(rel) /\ dst \in DstSet(rel)

\* Mutant of FirstColumnWeight: the default weight is 0.0.
FirstColumnWeightZero(edge_attr, i) ==
    IF edge_attr # None THEN edge_attr[1][i + 1][1] ELSE PyFloat(0)

\* weight of a flight or evolves_from link built at loop index i.
FirstColumnWeight(edge_attr, i) ==
    IF edge_attr # None THEN edge_attr[1][i + 1][1] ELSE PyFloat(1)

\* time_info of a sampled_at link: edge_attr[i].tolist() or [0, 0].
SamplingTimeInfo(edge_attr, i) ==
    IF edge_attr # None THEN edge_attr[1][i + 1] ELSE <<PyFloat(0), PyFloat(0)>>

\* time_info of a temporal link: edge_attr[i].tolist() or [0, 0, 0].
TemporalTimeInfo(edge_attr, i) ==
    IF edge_attr # None THEN edge_attr[1][i + 1]
    ELSE <<PyFloat(0), PyFloat(0), PyFloat(0)>>

\* Mutant of FlightLink: source and target exchanged.
FlightLinkSwapped(src, dst, i, edge_attr) ==
    [source |-> "airport_" \o ToString(dst),
     target |-> "airport_" \o ToString(src),
     type |-> "flight",
     weight |-> FirstColumnWeight(edge_attr, i)]

FlightLink(src, dst, i, edge_attr) ==
    [source |-> "airport_" \o ToString(src),
     target |-> "airport_" \o ToString(dst),
     type |-> "flight",
     weight |-> FirstColumnWeight(edge_attr, i)]

\* Mutant of SamplingLink: week read from the first column.
SamplingLinkWeekFirst(src, dst, i, edge_attr) ==
    LET time_info == SamplingTimeInfo(edge_attr, i)
    IN  [source |-> "lineage_" \o ToString(src),
         target |-> "airport_" \o ToString(dst),
         type |-> "sampled_at",
         weight |-> IF Len(time_info) > 0 THEN time_info[1] ELSE PyFloat(1),
         week |-> IF Len(time_info) > 1 THEN PyInt(time_info[1]) ELSE 0]

SamplingLink(src, dst, i, edge_attr) ==
    LET time_info == SamplingTimeInfo(edge_attr, i)
    IN  [source |-> "lineage_" \o ToString(src),
         target |-> "airport_" \o ToString(dst),
         type |-> "sampled_at",
         weight |-> IF Len(time_info) > 0 THEN time_info[1] ELSE PyFloat(1),
         week |-> IF Len(time_info) > 1 THEN PyInt(time_info[2]) ELSE 0]

EvolutionLink(src, dst, i, edge_attr) ==
    [source |-> "lineage_" \o ToString(src),
     target |-> "lineage_" \o ToString(dst),
     type |-> "evolves_from",
     weight |-> FirstColumnWeight(edge_attr, i)]

TemporalLink(src, dst, i, edge_attr) ==
    LET time_info == TemporalTimeInfo(edge_attr, i)
    IN  [source |-> "lineage_" \o ToString(src),
         target |-> "lineage_" \o ToString(dst),
         type |-> "temporal",
         weight |-> IF Len(time_info) > 2 THEN time_info[3] ELSE PyFloat(1),
         time_start |-> IF Len(time_info) > 0 THEN PyInt(time_info[1]) ELSE 0,
         time_end |-> IF Len(time_info) > 1 THEN PyInt(time_info[2]) ELSE 0]

Link(rel, src, dst, i, edge_attr) ==
    CASE rel = "flight" -> FlightLink(src, dst, i, edge_attr)
      [] rel = "sampled_at" -> SamplingLink(src, dst, i, edge_attr)
      [] rel = "evolves_from" -> EvolutionLink(src, dst, i, edge_attr)
      [] rel = "temporal" -> TemporalLink(src, dst, i, edge_attr)

\* Mutant of KeptIndices: an edge equal to an earlier one is skipped.
KeptIndicesDedup(rel, sampled) ==
    SelectSeq([k \in 1..Len(sampled) |-> k - 1],
              LAMBDA i : /\ Included(rel, sampled[i + 1][1], sampled[i + 1][2])
                         /\ \A j \in 1..i : sampled[j] # sampled[i + 1])

\* The loop indices i of edge_index_sampled whose edge passes the filter.
KeptIndices(rel, sampled) ==
    SelectSeq([k \in 1..Len(sampled) |-> k - 1],
              LAMBDA i : Included(rel, sampled[i + 1][1], sampled[i + 1][2]))

\* edge_index[:, indices]: the columns of edge_index the sample kept.
SampledEdgeIndex(edge_index, indices) ==
    [k \in 1..Len(indices) |-> edge_index[indices[k] + 1]]

\* Mutant of EdgeIndexAfter: the subsample is taken in place.
EdgeIndexSampledInPlace(edge_index, indices) == SampledEdgeIndex(edge_index, indices)

\* The graph's edge_index array after sample_edges: `edge_index[:, indices]`
\* indexes with an index array, which builds a new array; the array of the
\* graph is as it was.  Nothing else in a relation block writes to it.
EdgeIndexAfter(edge_index, indices) == edge_index

\* The links one relation block appends, for the index array `indices` that
\* sample_edges kept: the body of the loop over edge_index_sampled.
RelationLinks(rel, edge_index, edge_attr, indices) ==
    LET edge_index_sampled == SampledEdgeIndex(edge_index, indices)
        kept == KeptIndices(rel, edge_index_sampled)
    IN  [k \in 1..Len(kept) |->
            Link(rel, edge_index_sampled[kept[k] + 1][1],
                 edge_index_sampled[kept[k] + 1][2], kept[k], edge_attr)]

\* One relation block: sample the edge list, filter it, append the links.
ProcessEdges(rel, next) ==
    /\ pc = rel
    /\ IF rel \in DOMAIN hg
       THEN LET edge_index == hg[rel].edge_index
                edge_attr == hg[rel].edge_attr
                num_edges == Len(edge_index)
            IN  IF SampleEdgesFails(num_edges, MaxEdgesPerType)
                THEN /\ Raise("ValueError")
                     /\ UNCHANGED <<linkVars, rng, hg>>
                ELSE /\ \E indices \in SampleEdges(num_edges, MaxEdgesPerType) :
                         LET edge_index_sampled == SampledEdgeIndex(edge_index, indices)
                             kept == KeptIndices(rel, edge_index_sampled)
                         IN  /\ run = 2 => indices = rng[rel]
                             /\ edges' = edges \o
                                    RelationLinks(rel, edge_index, edge_attr, indices)
                             /\ edge_origin' = edge_origin \o
                                    [k \in 1..Len(kept) |-> <<rel, indices[kept[k] + 1]>>]
                             /\ rng' = [rng EXCEPT ![rel] = indices]
                             /\ hg' = [hg EXCEPT ![rel].edge_index =
                                          EdgeIndexAfter(edge_index, indices)]
                     /\ pc' = next
                     /\ UNCHANGED outcome
       ELSE /\ pc' = next
            /\ UNCHANGED <<linkVars, rng, outcome, hg>>
    /\ UNCHANGED <<dashVars, argVars, nodeVars, output_data, file, file_before, run, set_order>>

FlightEdges == ProcessEdges("flight", "sampled_at")
SamplingEdges == ProcessEdges("sampled_at", "evolves_from")
EvolutionEdges == ProcessEdges("evolves_from", "temporal")
TemporalEdges == ProcessEdges("temporal", "assemble")

(***************************************************************************)
(* The document (lines 249-260).                                           *)
(***************************************************************************)
\* Mutant of LinkTypes: the relations of the graph, not those of the links.
LinkTypesOfGraph(links) == DOMAIN hg

\* set(e['type'] for e in edges)
LinkTypes(links) == {links[k].type : k \in 1..Len(links)}

\* list(set(...)): the set in the order the process iterates it.  The order
\* of a set of strings follows their hashes, which differ from one process
\* to the next, so a process may produce any order of the set, and produces
\* the same order for the same set.
EdgeTypeLists(links) ==
    LET T == LinkTypes(links)
    IN  IF set_order # None
        THEN {set_order[1]}
        ELSE {s \in [1..Cardinality(T) -> T] :
                \A i, j \in 1..Cardinality(T) : i # j => s[i] # s[j]}

\* Mutant of Metadata: num_edges counts the input edges, not the links.
RECURSIVE SumLen(_, _)
SumLen(g, rels) ==
    IF rels = {} THEN 0
    ELSE LET r == CHOOSE x \in rels : TRUE
         IN  Len(g[r].edge_index) + SumLen(g, rels \ {r})
MetadataInputEdges(edge_types) ==
    [num_airports |-> Len(airports),
     num_lineages |-> Len(lineages),
     num_edges |-> SumLen(hg, DOMAIN hg),
     edge_types |-> edge_types,
     sampled |-> sample_size # None]

Metadata(edge_types) ==
    [num_airports |-> Len(airports),
     num_lineages |-> Len(lineages),
     num_edges |-> Len(edges),
     edge_types |-> edge_types,
     sampled |-> sample_size # None]

Assemble ==
    /\ pc = "assemble"
    /\ \E edge_types \in EdgeTypeLists(edges) :
        /\ output_data' = Some([nodes |-> airports \o lineages,
                                links |-> edges,
                                metadata |-> Metadata(edge_types)])
        /\ set_order' = Some(edge_types)
    /\ pc' = "save"
    /\ UNCHANGED <<dashVars, inputs, nodeVars, linkVars, file, file_before, outcome, run, rng>>
(***************************************************************************)
(* The save (lines 262-274).                                               *)
(***************************************************************************)
Quote(str) == "\"" \o str \o "\""
Unserializable == "<TypeError>"

\* json.dump of an integer: a Python int is written; a numpy.int64 is not a
\* type the encoder knows, and it raises TypeError after the key is written.
IntChunk(key, x) ==
    IF x.t = "int" THEN Quote(key) \o ": " \o ToString(x.v) ELSE Unserializable

NodeChunks(n) ==
    IF n.type = "airport"
    THEN <<"{", Quote("id") \o ": " \o Quote(n.id), IntChunk("index", n.index),
           Quote("code") \o ": " \o Quote(n.code),
           Quote("type") \o ": " \o Quote(n.type),
           Quote("lat") \o ": " \o FloatRepr(n.lat),
           Quote("lon") \o ": " \o FloatRepr(n.lon),
           Quote("city") \o ": " \o Quote(n.city),
           Quote("country") \o ": " \o Quote(n.country), "}">>
    ELSE <<"{", Quote("id") \o ": " \o Quote(n.id), IntChunk("index", n.index),
           Quote("name") \o ": " \o Quote(n.name),
           Quote("type") \o ": " \o Quote(n.type), "}">>

LinkChunks(e) ==
    <<"{", Quote("source") \o ": " \o Quote(e.source),
      Quote("target") \o ": " \o Quote(e.target),
      Quote("type") \o ": " \o Quote(e.type),
      Quote("weight") \o ": " \o FloatRepr(e.weight)>>
    \o (IF "week" \in DOMAIN e
        THEN <<Quote("week") \o ": " \o ToString(e.week)>> ELSE <<>>)
    \o (IF "time_start" \in DOMAIN e
        THEN <<Quote("time_start") \o ": " \o ToString(e.time_start),
               Quote("time_end") \o ": " \o ToString(e.time_end)>>
        ELSE <<>>)
    \o <<"}">>

MetadataChunks(m) ==
    <<"{", Quote("num_airports") \o ": " \o ToString(m.num_airports),
      Quote("num_lineages") \o ": " \o ToString(m.num_lineages),
      Quote("num_edges") \o ": " \o ToString(m.num_edges),
      Quote("edge_types") \o ": [">>
    \o [k \in 1..Len(m.edge_types) |-> Quote(m.edge_types[k])]
    \o <<"]", Quote("sampled") \o ": " \o (IF m.sampled THEN "true" ELSE "false"),
         "}">>

RECURSIVE Flatten(_)
Flatten(ss) == IF ss = <<>> THEN <<>> ELSE Head(ss) \o Flatten(Tail(ss))

\* The chunks the encoder yields for the document, in order.
Chunks(doc) ==
    <<"{", Quote("nodes") \o ": [">>
    \o Flatten([k \in 1..Len(doc.nodes) |-> NodeChunks(doc.nodes[k])])
    \o <<"]", Quote("links") \o ": [">>
    \o Flatten([k \in 1..Len(doc.links) |-> LinkChunks(doc.links[k])])
    \o <<"]", Quote("metadata") \o ": ">>
    \o MetadataChunks(doc.metadata)
    \o <<"}">>

\* json.dump(output_data, f): every chunk is written as it is yielded, so
\* when a value cannot be encoded the chunks before it are in the file.
JsonDump(doc) ==
    LET c == Chunks(doc)
        bad == {k \in 1..Len(c) : c[k] = Unserializable}
    IN  IF bad = {}
        THEN [ok |-> TRUE, text |-> c]
        ELSE LET first == CHOOSE k \in bad : \A j \in bad : k <= j
             IN  [ok |-> FALSE,
                  text |-> SubSeq(c, 1, first - 1) \o <<Quote("index") \o ": ">>]

\* open(output_path, 'w') creates or truncates the file; json.dump fills it;
\* leaving the with block closes it, also when json.dump raised.
Save ==
    /\ pc = "save"
    /\ LET written == JsonDump(output_data[1])
       IN  /\ file' = [exists |-> TRUE, text |-> written.text]
           /\ outcome' = IF written.ok THEN "returned" ELSE "TypeError"
    /\ pc' = "done"
    /\ UNCHANGED <<dashVars, inputs, nodeVars, linkVars, output_data, file_before, run, rng,
                   set_order>>

Next ==
    \/ AirportNodes
    \/ LineageNodes
    \/ FlightEdges
    \/ SamplingEdges
    \/ EvolutionEdges
    \/ TemporalEdges
    \/ Assemble
    \/ Save

Spec == Init /\ [][Next]_vars

(***************************************************************************)
(* A second call with the same arguments and np.random seeded as for the   *)
(* first, in the same process or in a new one.                             *)
(***************************************************************************)
Rerun ==
    /\ pc = "done"
    /\ run = 1
    /\ run' = 2
    /\ pc' = "airports"
    /\ airport_indices' = [elems |-> {}, dtype |-> "int"]
    /\ lineage_indices' = [elems |-> {}, dtype |-> "int"]
    /\ airports' = <<>>
    /\ lineages' = <<>>
    /\ edges' = <<>>
    /\ edge_origin' = <<>>
    /\ output_data' = None
    /\ outcome' = "running"
    /\ file_before' = file
    /\ \E same_process \in BOOLEAN :
        set_order' = IF same_process THEN set_order ELSE None
    /\ UNCHANGED <<dashVars, inputs, file, rng>>

NextRerun == Next \/ Rerun

SpecRerun == Init /\ [][NextRerun]_vars
(***************************************************************************)
(* Vocabulary of the properties.                                           *)
(***************************************************************************)
\* The blocks of the function body, in program order.
Order(p) ==
    CASE p = "airports" -> 1
      [] p = "lineages" -> 2
      [] p = "flight" -> 3
      [] p = "sampled_at" -> 4
      [] p = "evolves_from" -> 5
      [] p = "temporal" -> 6
      [] p = "assemble" -> 7
      [] p = "save" -> 8
      [] p = "done" -> 9

\* A limit is given for `key` in the sample_size argument.
Given(key) == sample_size # None /\ key \in DOMAIN sample_size[1]
LimitOf(key) == sample_size[1][key]
NegativeLimit == \E key \in {"airports", "lineages", "edges"} : Given(key) /\ LimitOf(key) < 0

\* The block of `q` raises when it is reached.
BlockFails(q) ==
    CASE q = "airports" -> NodeSampleFails("airports", Cardinality(DOMAIN airport_to_idx))
      [] q = "lineages" -> NodeSampleFails("lineages", Cardinality(DOMAIN lineage_to_idx))
      [] q \in RelTypes ->
            q \in DOMAIN hg /\ SampleEdgesFails(Len(hg[q].edge_index), MaxEdgesPerType)
      [] OTHER -> FALSE

\* The block of `p` has run to its end in this call.
Completed(p) ==
    /\ Order(pc) > Order(p)
    /\ \A q \in {"airports", "lineages"} \cup RelTypes :
          Order(q) <= Order(p) => ~BlockFails(q)

CountOfType(nodes, type) == Cardinality({k \in 1..Len(nodes) : nodes[k].type = type})
LinksOfType(rel) == {k \in 1..Len(edges) : edges[k].type = rel}
InputEdges == SumLen(hg, DOMAIN hg)

\* The number of nodes the claim C1 expects for a population and a limit.
ExpectedNodes(key, population) ==
    IF Given(key) /\ LimitOf(key) <= population THEN LimitOf(key) ELSE population
(***************************************************************************)
(* C1: for each node type with population N, the number of node records    *)
(* emitted is L when a limit 0 <= L <= N is given, and N when the limit    *)
(* exceeds N or no limit is given for the type.                            *)
(***************************************************************************)
C1_NodeCount ==
    /\ Completed("airports") =>
          /\ Len(airports) = ExpectedNodes("airports", Cardinality(DOMAIN airport_to_idx))
          /\ CountOfType(airports, "airport") = Len(airports)
    /\ Completed("lineages") =>
          /\ Len(lineages) = ExpectedNodes("lineages", Cardinality(DOMAIN lineage_to_idx))
          /\ CountOfType(lineages, "lineage") = Len(lineages)
    /\ output_data # None =>
          /\ CountOfType(output_data[1].nodes, "airport")
                = ExpectedNodes("airports", Cardinality(DOMAIN airport_to_idx))
          /\ CountOfType(output_data[1].nodes, "lineage")
                = ExpectedNodes("lineages", Cardinality(DOMAIN lineage_to_idx))

\* A limit below the population cut the airports, a limit above the
\* population left every lineage, and the document is assembled.
C1_Witness ==
    /\ output_data # None
    /\ Given("airports")
    /\ LimitOf("airports") > 0
    /\ LimitOf("airports") < Cardinality(DOMAIN airport_to_idx)
    /\ Len(airports) = LimitOf("airports")
    /\ Given("lineages")
    /\ LimitOf("lineages") > Cardinality(DOMAIN lineage_to_idx)
    /\ Len(lineages) = Cardinality(DOMAIN lineage_to_idx)
    /\ Len(lineages) > 0

(***************************************************************************)
(* C2: each link's source id and target id are ids of node records of the  *)
(* same document, whatever the edge lists and the limits.                  *)
(***************************************************************************)
NodeIds(nodes) == {nodes[k].id : k \in 1..Len(nodes)}

C2_NoDanglingLinks ==
    /\ \A k \in 1..Len(edges) :
          /\ edges[k].source \in NodeIds(airports \o lineages)
          /\ edges[k].target \in NodeIds(airports \o lineages)
    /\ output_data # None =>
          \A k \in 1..Len(output_data[1].links) :
             /\ output_data[1].links[k].source \in NodeIds(output_data[1].nodes)
             /\ output_data[1].links[k].target \in NodeIds(output_data[1].nodes)

\* A document with a link, from a call whose node sampling dropped an edge.
C2_Witness ==
    /\ output_data # None
    /\ Given("airports")
    /\ ~Given("edges")
    /\ Len(airports) < Cardinality(DOMAIN airport_to_idx)
    /\ Len(output_data[1].links) > 0
    /\ Len(output_data[1].links) < InputEdges

(***************************************************************************)
(* C3: every link carries the attribute values of the input edge it was    *)
(* derived from: a link made from input edge number e of a relation has    *)
(* the fields that row e of the relation's attribute array gives.          *)
(***************************************************************************)
SourceOf(k) == hg[edge_origin[k][1]].edge_index[edge_origin[k][2] + 1][1]
TargetOf(k) == hg[edge_origin[k][1]].edge_index[edge_origin[k][2] + 1][2]

C3_AttributesOfOwnEdge ==
    \A k \in 1..Len(edges) :
        LET rel == edge_origin[k][1]
            e == edge_origin[k][2]
        IN  hg[rel].edge_attr # None =>
               edges[k] = Link(rel, SourceOf(k), TargetOf(k), e, hg[rel].edge_attr)

(***************************************************************************)
(* C4: a call with well-formed arguments, with or without limits, runs to  *)
(* completion and leaves one complete JSON document at the output path.    *)
(***************************************************************************)
C4_CompleteDocument ==
    (pc = "done" /\ ~NegativeLimit) =>
        /\ outcome = "returned"
        /\ output_data # None
        /\ file = [exists |-> TRUE, text |-> Chunks(output_data[1])]

(***************************************************************************)
(* C5: a call that fails leaves the file at the output path as it was:     *)
(* neither created nor changed.                                            *)
(***************************************************************************)
C5_FailureWritesNothing ==
    (pc = "done" /\ outcome \in {"ValueError", "TypeError"}) => file = file_before

(***************************************************************************)
(* C6: with an edge cap C >= 0 no relation type contributes more than C    *)
(* links.                                                                  *)
(***************************************************************************)
C6_EdgeCap ==
    (Given("edges") /\ LimitOf("edges") >= 0) =>
        \A rel \in RelTypes : Cardinality(LinksOfType(rel)) <= LimitOf("edges")
(***************************************************************************)
(* C7 as stated: when a relation's attribute array is None, every numeric  *)
(* attribute-derived field of its links (weight, week, time_start,         *)
(* time_end) is 0 / 0.0, for each of the four relation types.              *)
(***************************************************************************)
NoAttr(k) == hg[edge_origin[k][1]].edge_attr = None

C7_DefaultsAllZero ==
    \A k \in 1..Len(edges) :
        NoAttr(k) =>
            /\ edges[k].weight = PyFloat(0)
            /\ "week" \in DOMAIN edges[k] => edges[k].week = 0
            /\ "time_start" \in DOMAIN edges[k] => edges[k].time_start = 0
            /\ "time_end" \in DOMAIN edges[k] => edges[k].time_end = 0

(***************************************************************************)
(* C7 amended: when a relation's attribute array is None, the relation's   *)
(* block raises nothing on that account (with no negative limit given it   *)
(* runs to its end), and its links take the defaults of the code: weight   *)
(* 1.0 for flight and evolves_from; weight 0.0 and week 0 for sampled_at;  *)
(* weight 0.0, time_start 0 and time_end 0 for temporal.                   *)
(***************************************************************************)
C7_Defaults ==
    /\ \A k \in 1..Len(edges) :
          NoAttr(k) =>
             /\ edges[k].type \in {"flight", "evolves_from"} =>
                   /\ edges[k].weight = PyFloat(1)
                   /\ DOMAIN edges[k] = {"source", "target", "type", "weight"}
             /\ edges[k].type = "sampled_at" =>
                   /\ edges[k].weight = PyFloat(0)
                   /\ edges[k].week = 0
             /\ edges[k].type = "temporal" =>
                   /\ edges[k].weight = PyFloat(0)
                   /\ edges[k].time_start = 0
                   /\ edges[k].time_end = 0
    /\ \A rel \in DOMAIN hg :
          (hg[rel].edge_attr = None /\ ~NegativeLimit /\ Order(pc) > Order(rel))
             => /\ outcome # "ValueError"
                /\ Completed(rel)

\* Links of all four relations, each built without an attribute array.
C7_Witness ==
    /\ pc = "done"
    /\ \A rel \in RelTypes :
          /\ rel \in DOMAIN hg
          /\ hg[rel].edge_attr = None
          /\ LinksOfType(rel) # {}

(***************************************************************************)
(* C8: in every document, metadata.num_edges is the number of links,       *)
(* metadata.num_airports the number of nodes of type airport,              *)
(* metadata.num_lineages the number of nodes of type lineage, and          *)
(* num_airports + num_lineages the length of nodes.                        *)
(***************************************************************************)
C8_MetadataCounts ==
    output_data # None =>
        LET doc == output_data[1]
        IN  /\ doc.metadata.num_edges = Len(doc.links)
            /\ doc.metadata.num_airports = CountOfType(doc.nodes, "airport")
            /\ doc.metadata.num_lineages = CountOfType(doc.nodes, "lineage")
            /\ doc.metadata.num_airports + doc.metadata.num_lineages = Len(doc.nodes)

\* A document with nodes of both types and fewer links than input edges.
C8_Witness ==
    /\ output_data # None
    /\ output_data[1].metadata.num_airports > 0
    /\ output_data[1].metadata.num_lineages > 0
    /\ output_data[1].metadata.num_edges > 0
    /\ output_data[1].metadata.num_edges < InputEdges

(***************************************************************************)
(* C9: metadata.edge_types holds a relation tag if and only if some link   *)
(* has that type, and holds it once; a relation with no input edges, with  *)
(* every edge filtered out, or missing from the graph, gives no link and   *)
(* is not in edge_types.                                                   *)
(***************************************************************************)
C9_EdgeTypes ==
    output_data # None =>
        LET doc == output_data[1]
            types == doc.metadata.edge_types
        IN  /\ \A i, j \in 1..Len(types) : i # j => types[i] # types[j]
            /\ \A rel \in RelTypes :
                  (\E k \in 1..Len(types) : types[k] = rel)
                     <=> (\E k \in 1..Len(doc.links) : doc.links[k].type = rel)
            /\ \A k \in 1..Len(types) : types[k] \in RelTypes
            /\ \A rel \in RelTypes :
                  (rel \notin DOMAIN hg \/ Len(hg[rel].edge_index) = 0)
                     => /\ \A k \in 1..Len(doc.links) : doc.links[k].type # rel
                        /\ \A k \in 1..Len(types) : types[k] # rel

\* A document where one relation gave links and another relation, with
\* input edges, had all of them filtered out.
C9_Witness ==
    /\ output_data # None
    /\ \E k \in 1..Len(output_data[1].metadata.edge_types) :
          output_data[1].metadata.edge_types[k] = "flight"
    /\ "sampled_at" \in DOMAIN hg
    /\ Len(hg["sampled_at"].edge_index) > 0
    /\ \A k \in 1..Len(output_data[1].metadata.edge_types) :
          output_data[1].metadata.edge_types[k] # "sampled_at"

(***************************************************************************)
(* C10: a second run with the same arguments and the same random seed      *)
(* writes the bytes the first run wrote, the order of edge_types included. *)
(***************************************************************************)
C10_SameBytes ==
    (run = 2 /\ pc = "done") => file = file_before

(***************************************************************************)
(* C11: metadata.sampled is true exactly when the call gave at least one   *)
(* sampling limit (airports, lineages or edges), and false otherwise, also *)
(* when sample_size is an empty dictionary.                                *)
(***************************************************************************)
C11_SampledFlag ==
    output_data # None =>
        (output_data[1].metadata.sampled
            <=> \E key \in {"airports", "lineages", "edges"} : Given(key))

(***************************************************************************)
(* Vocabulary of the properties on single edges.                           *)
(***************************************************************************)
\* The node type at each end of a relation.
SrcType(rel) == IF rel = "flight" THEN "airport" ELSE "lineage"
DstType(rel) == IF rel \in {"flight", "sampled_at"} THEN "airport" ELSE "lineage"
Population(type) ==
    IF type = "airport" THEN Cardinality(DOMAIN airport_to_idx)
    ELSE Cardinality(DOMAIN lineage_to_idx)
Selected(type) ==
    IF type = "airport" THEN airport_indices.elems ELSE lineage_indices.elems

\* Input edge number e of a relation has an index out of range.
OutOfRange(rel, e) ==
    LET src == hg[rel].edge_index[e + 1][1]
        dst == hg[rel].edge_index[e + 1][2]
    IN  \/ src < 0
        \/ src >= Population(SrcType(rel))
        \/ dst < 0
        \/ dst >= Population(DstType(rel))

\* A list without its element number e (from 0).
Without(seq, e) == SubSeq(seq, 1, e) \o SubSeq(seq, e + 2, Len(seq))

\* The links of a relation in the list edges, in order.
LinksOf(rel) == SelectSeq(edges, LAMBDA l : l.type = rel)

\* The lists of links the relation block can make when input edge e, and
\* its attribute row, are not in the input.
LinksWithoutEdge(rel, e) ==
    LET edge_index == Without(hg[rel].edge_index, e)
        edge_attr == IF hg[rel].edge_attr = None THEN None
                     ELSE Some(Without(hg[rel].edge_attr[1], e))
    IN  {RelationLinks(rel, edge_index, edge_attr, indices) :
            indices \in SampleEdges(Len(edge_index), MaxEdgesPerType)}

(***************************************************************************)
(* C12 as stated: an edge with an index out of range gives no link and no  *)
(* error, and the links made from all other edges are those the call would *)
(* make if that edge were not in the input.                                *)
(***************************************************************************)
C12_OutOfRangeAsAbsent ==
    \A rel \in DOMAIN hg :
        Completed(rel) =>
            \A e \in 0..(Len(hg[rel].edge_index) - 1) :
                OutOfRange(rel, e) =>
                    /\ \A k \in 1..Len(edges) : edge_origin[k] # <<rel, e>>
                    /\ LinksOf(rel) \in LinksWithoutEdge(rel, e)

(***************************************************************************)
(* C12 amended: an edge with an index out of range gives no link and no    *)
(* error (with no negative limit given the relation's block runs to its    *)
(* end); and when the relation's edge list is not subsampled (no edge cap  *)
(* in effect, or not more edges than the cap) the links made from all      *)
(* other edges are those the call would make without that edge.            *)
(***************************************************************************)
C12_OutOfRangeDropped ==
    \A rel \in DOMAIN hg :
        \A e \in 0..(Len(hg[rel].edge_index) - 1) :
            OutOfRange(rel, e) =>
                /\ \A k \in 1..Len(edges) : edge_origin[k] # <<rel, e>>
                /\ (Order(pc) > Order(rel) /\ ~NegativeLimit) => Completed(rel)
                /\ (Completed(rel)
                      /\ ~Subsamples(Len(hg[rel].edge_index), MaxEdgesPerType))
                     => LinksOf(rel) \in LinksWithoutEdge(rel, e)

\* A relation block ran, not subsampled, over an edge out of range and an
\* edge that gave a link.
C12_Witness ==
    \E rel \in DOMAIN hg :
        /\ Completed(rel)
        /\ ~Subsamples(Len(hg[rel].edge_index), MaxEdgesPerType)
        /\ \E e \in 0..(Len(hg[rel].edge_index) - 1) : OutOfRange(rel, e)
        /\ LinksOf(rel) # <<>>

(***************************************************************************)
(* C13: among the edges of a relation left by the edge subsampling, an     *)
(* edge gives a link if and only if its source index is in the selected    *)
(* set of the relation's source type and its destination index in the      *)
(* selected set of its destination type; each such edge gives exactly one  *)
(* link, parallel duplicates included.                                     *)
(***************************************************************************)
\* The input edge numbers behind the links of a relation, in link order.
OriginsOf(rel) ==
    LET own == SelectSeq(edge_origin, LAMBDA o : o[1] = rel)
    IN  [k \in 1..Len(own) |-> own[k][2]]

\* The input edge numbers the subsampling kept whose two ends are selected.
PassingEdges(rel) ==
    SelectSeq(rng[rel],
              LAMBDA e : /\ hg[rel].edge_index[e + 1][1] \in Selected(SrcType(rel))
                         /\ hg[rel].edge_index[e + 1][2] \in Selected(DstType(rel)))

C13_LinkIffBothSelected ==
    \A rel \in DOMAIN hg :
        Completed(rel) =>
            /\ OriginsOf(rel) = PassingEdges(rel)
            /\ Len(LinksOf(rel)) = Len(PassingEdges(rel))

\* Two equal parallel edges of a relation gave two links.
C13_Witness ==
    \E rel \in DOMAIN hg :
        /\ Completed(rel)
        /\ Len(hg[rel].edge_index) = 2
        /\ hg[rel].edge_index[1] = hg[rel].edge_index[2]
        /\ Len(LinksOf(rel)) = 2

(***************************************************************************)
(* C14: with mapping {"JFK": 0, "LAX": 1}, one flight edge (0,1) of weight *)
(* 42, no other relation and no limits, the document has exactly two       *)
(* airport nodes, airport_0 (JFK) then airport_1 (LAX), exactly one link   *)
(* {source airport_0, target airport_1, type flight, weight 42.0},         *)
(* edge_types [flight] and sampled false.                                  *)
(***************************************************************************)
Scenario ==
    /\ airport_to_idx = AirportMap(2, FALSE)
    /\ hg = ScenarioGraph
    /\ sample_size = None

AirportsIn(nodes) == SelectSeq(nodes, LAMBDA n : n.type = "airport")

C14_Scenario ==
    /\ (Scenario /\ Order(pc) > Order("temporal")) => output_data # None \/ pc = "assemble"
    /\ (Scenario /\ output_data # None) =>
          LET doc == output_data[1]
          IN  /\ Len(AirportsIn(doc.nodes)) = 2
              /\ SubSeq(doc.nodes, 1, 2) = AirportsIn(doc.nodes)
              /\ doc.nodes[1].id = "airport_0"
              /\ doc.nodes[1].code = "JFK"
              /\ doc.nodes[2].id = "airport_1"
              /\ doc.nodes[2].code = "LAX"
              /\ doc.links = <<[source |-> "airport_0", target |-> "airport_1",
                                type |-> "flight", weight |-> PyFloat(42)]>>
              /\ doc.metadata.edge_types = <<"flight">>
              /\ doc.metadata.sampled = FALSE
    /\ (Scenario /\ pc = "done") =>
          /\ outcome = "returned"
          /\ file.text = Chunks(output_data[1])
          /\ \E k \in 1..Len(file.text) : file.text[k] = "\"weight\": 42.0"

\* The scenario call has returned, with no lineage in the mapping.
C14_Witness ==
    /\ Scenario
    /\ lineage_to_idx = LineageMap(0, FALSE)
    /\ pc = "done"
    /\ outcome = "returned"

(***************************************************************************)
(* C15: every node record has id "<type>_<index>" of its own type tag and   *)
(* index, the ids of the nodes list are pairwise distinct, and the record's *)
(* code (airport) or name (lineage) is what the index-to-identifier mapping *)
(* gives for its index: the mapping passed in, or else the inverse of the   *)
(* forward mapping.                                                         *)
(***************************************************************************)
NodeRecords == IF output_data # None THEN output_data[1].nodes ELSE airports \o lineages

C15_NodeIdentity ==
    /\ \A i \in 1..Len(NodeRecords) :
          LET n == NodeRecords[i]
          IN  /\ n.type \in {"airport", "lineage"}
              /\ n.id = n.type \o "_" \o ToString(n.index.v)
              /\ n.type = "airport" =>
                    IF idx_to_airport = None
                    THEN /\ n.code \in DOMAIN airport_to_idx
                         /\ airport_to_idx[n.code] = n.index.v
                    ELSE n.code = idx_to_airport[1][n.index.v]
              /\ n.type = "lineage" =>
                    IF idx_to_lineage = None
                    THEN /\ n.name \in DOMAIN lineage_to_idx
                         /\ lineage_to_idx[n.name] = n.index.v
                    ELSE n.name = idx_to_lineage[1][n.index.v]
    /\ \A i, j \in 1..Len(NodeRecords) : i # j => NodeRecords[i].id # NodeRecords[j].id

\* A document with an airport and a lineage of the same index, the airport
\* named by a passed mapping and the lineage by the inverted forward mapping.
C15_Witness ==
    /\ output_data # None
    /\ idx_to_airport # None
    /\ idx_to_lineage = None
    /\ \E i, j \in 1..Len(output_data[1].nodes) :
          /\ output_data[1].nodes[i].type = "airport"
          /\ output_data[1].nodes[j].type = "lineage"
          /\ output_data[1].nodes[i].index.v = output_data[1].nodes[j].index.v

(***************************************************************************)
(* C16: an airport node's display attribute that is missing has its        *)
(* default: when flights_df is absent, has no row for the airport, or has  *)
(* a row for it without the attribute's column, lat and lon are 0.0 and    *)
(* city and country are the empty string.                                  *)
(***************************************************************************)
\* The table has a row whose origin, or whose destination, is the code.
HasRowAs(col, code) ==
    /\ flights_df # None
    /\ \E r \in 1..Len(flights_df[1].rows) : flights_df[1].rows[r][col] = code

\* The column a node attribute of the airport is read from: the origin
\* column when the airport has a row as origin, else the destination column.
ColumnOf(code, origin_col) ==
    IF HasRowAs("origin", code) THEN origin_col ELSE origin_col \o "_destination"

MissingAttr(code, origin_col) ==
    \/ flights_df = None
    \/ ~HasRowAs("origin", code) /\ ~HasRowAs("destination", code)
    \/ ColumnOf(code, origin_col) \notin flights_df[1].columns

C16_MissingDefaults ==
    \A i \in 1..Len(airports) :
        LET n == airports[i]
        IN  /\ MissingAttr(n.code, "Latitude") => n.lat = PyFloat(0)
            /\ MissingAttr(n.code, "Longitude") => n.lon = PyFloat(0)
            /\ MissingAttr(n.code, "City") => n.city = ""
            /\ MissingAttr(n.code, "Country") => n.country = ""

(***************************************************************************)
(* C17: a link's ids carry the endpoint types of its relation (flight:     *)
(* airport to airport; sampled_at: lineage to airport; evolves_from and    *)
(* temporal: lineage to lineage), its source index is in the selected set  *)
(* of the source type and its destination index in the selected set of the *)
(* destination type; and a kept edge that passes both tests has a link.    *)
(***************************************************************************)
EndpointTypes ==
    [flight |-> <<"airport", "airport">>,
     sampled_at |-> <<"lineage", "airport">>,
     evolves_from |-> <<"lineage", "lineage">>,
     temporal |-> <<"lineage", "lineage">>]

SelectedOf(type) ==
    IF type = "airport" THEN airport_indices.elems ELSE lineage_indices.elems

C17_EndpointTypes ==
    /\ \A k \in 1..Len(edges) :
          LET rel == edges[k].type
          IN  /\ rel \in DOMAIN EndpointTypes
              /\ rel = edge_origin[k][1]
              /\ edges[k].source = EndpointTypes[rel][1] \o "_" \o ToString(SourceOf(k))
              /\ edges[k].target = EndpointTypes[rel][2] \o "_" \o ToString(TargetOf(k))
              /\ SourceOf(k) \in SelectedOf(EndpointTypes[rel][1])
              /\ TargetOf(k) \in SelectedOf(EndpointTypes[rel][2])
    /\ \A rel \in DOMAIN hg :
          Completed(rel) =>
              \A p \in 1..Len(rng[rel]) :
                  LET e == rng[rel][p]
                  IN  (/\ hg[rel].edge_index[e + 1][1] \in SelectedOf(EndpointTypes[rel][1])
                       /\ hg[rel].edge_index[e + 1][2] \in SelectedOf(EndpointTypes[rel][2]))
                      => \E k \in 1..Len(edges) : edge_origin[k] = <<rel, e>>

\* A sampled_at link whose destination is a selected airport and not a
\* selected lineage, and whose source is a selected lineage and not a
\* selected airport.
C17_Witness ==
    \E k \in 1..Len(edges) :
        /\ edges[k].type = "sampled_at"
        /\ TargetOf(k) \notin lineage_indices.elems
        /\ SourceOf(k) \notin airport_indices.elems

(***************************************************************************)
(* C18: every link has the fields source, target, type and weight; week is *)
(* a field exactly of sampled_at links, time_start and time_end exactly of *)
(* temporal links.  With attributes given, in the row the link reads:      *)
(* sampled_at has weight from column 0 and week from column 1 (as an int); *)
(* temporal has time_start from column 0, time_end from column 1 (as ints) *)
(* and weight from column 2; flight and evolves_from have weight from      *)
(* column 0.                                                               *)
(***************************************************************************)
\* The attribute row link k reads: the row at its position in the loop over
\* the (sub)sampled edge list.
RowRead(k) ==
    LET rel == edge_origin[k][1]
        p == CHOOSE q \in 1..Len(rng[rel]) : rng[rel][q] = edge_origin[k][2]
    IN  hg[rel].edge_attr[1][p]

C18_LinkFields ==
    \A k \in 1..Len(edges) :
        LET l == edges[k]
        IN  /\ DOMAIN l = {"source", "target", "type", "weight"}
                    \cup (IF l.type = "sampled_at" THEN {"week"} ELSE {})
                    \cup (IF l.type = "temporal" THEN {"time_start", "time_end"} ELSE {})
            /\ l.type \in {"flight", "sampled_at", "evolves_from", "temporal"}
            /\ ~NoAttr(k) =>
                  CASE l.type \in {"flight", "evolves_from"} ->
                          l.weight = RowRead(k)[1]
                    [] l.type = "sampled_at" ->
                          /\ l.weight = RowRead(k)[1]
                          /\ l.week = PyInt(RowRead(k)[2])
                    [] l.type = "temporal" ->
                          /\ l.time_start = PyInt(RowRead(k)[1])
                          /\ l.time_end = PyInt(RowRead(k)[2])
                          /\ l.weight = RowRead(k)[3]

\* Links of all four types, made from given attributes.
C18_Witness ==
    /\ \A rel \in {"flight", "sampled_at", "evolves_from", "temporal"} :
          \E k \in 1..Len(edges) : edges[k].type = rel /\ ~NoAttr(k)

(***************************************************************************)
(* C20: in the nodes list all airport nodes come before all lineage nodes  *)
(* and, within a type, indices strictly ascend.  In the links list the     *)
(* relations come in the order flight, sampled_at, evolves_from, temporal  *)
(* and, within a relation, links are in the order of the (sub)sampled edge *)
(* list.                                                                   *)
(***************************************************************************)
RelationRank(rel) ==
    CASE rel = "flight" -> 1
      [] rel = "sampled_at" -> 2
      [] rel = "evolves_from" -> 3
      [] rel = "temporal" -> 4

\* Position of link k's edge in the (sub)sampled edge list of its relation.
SampledPosition(k) ==
    CHOOSE q \in 1..Len(rng[edge_origin[k][1]]) :
        rng[edge_origin[k][1]][q] = edge_origin[k][2]

C20_ListOrder ==
    output_data # None =>
        LET nodes == output_data[1].nodes
            links == output_data[1].links
        IN  /\ \A i, j \in 1..Len(nodes) :
                  i < j =>
                      /\ nodes[i].type = "lineage" => nodes[j].type = "lineage"
                      /\ nodes[i].type = nodes[j].type
                            => nodes[i].index.v < nodes[j].index.v
            /\ links = edges
            /\ \A i, j \in 1..Len(links) :
                  i < j =>
                      /\ RelationRank(links[i].type) <= RelationRank(links[j].type)
                      /\ links[i].type = links[j].type
                            => SampledPosition(i) < SampledPosition(j)

\* A document with two nodes of each type, links of two relations, and two
\* flight links in the order drawn, which is not the order of the input.
C20_Witness ==
    /\ output_data # None
    /\ Len(output_data[1].nodes) = 4
    /\ \E i, j \in 1..Len(output_data[1].links) :
          /\ i < j
          /\ output_data[1].links[i].type = "flight"
          /\ output_data[1].links[j].type = "flight"
          /\ edge_origin[i][2] > edge_origin[j][2]
    /\ \E k \in 1..Len(output_data[1].links) : output_data[1].links[k].type = "sampled_at"

(***************************************************************************)
(* The dashboard script (src/data analysis/flight_dashboard.py).           *)
(***************************************************************************)
\* A missing cell of a table; a present cell v is Some(v).
NaN == <<>>

\* Elementwise != and == of two columns: a missing value is unequal to
\* every value, itself included.
NotEqual(a, b) == a = NaN \/ b = NaN \/ a # b
Equal(a, b) == a # NaN /\ b # NaN /\ a = b

\* The slider's arguments (lines 95-101).
SliderCap == 1000
SliderDefault == 50
SliderStep == 10

Airport(icao, city, country, lat, lon) ==
    [ICAO |-> icao, City |-> city, Country |-> country,
     Latitude |-> lat, Longitude |-> lon]

\* An airports.dat: two airports with everything known, one without a city,
\* and two without an ICAO code (\N in the file, read as missing).
AirportsDat ==
    <<Airport(Some("KJFK"), Some("New York"), Some("United States"), Some(81), Some(-147)),
      Airport(Some("EGLL"), Some("London"), Some("United Kingdom"), Some(103), Some(-1)),
      Airport(Some("CYYZ"), NaN, Some("Canada"), Some(87), Some(-159)),
      Airport(NaN, Some("Springfield"), Some("United States"), Some(79), Some(-179)),
      Airport(NaN, Some("Halifax"), Some("Canada"), Some(89), Some(-127))>>

AirportsTables ==
    {AirportsDat, SelectSeq(AirportsDat, LAMBDA a : a.ICAO # NaN)}

\* The origin and destination cells of the flight lists: codes of the
\* airports table, a code it does not have, and the missing cell.
FlightCodes == <<Some("KJFK"), Some("EGLL"), Some("CYYZ"), Some("ZZZZ"), NaN>>

FlightRow(n) ==
    [origin |-> FlightCodes[((n - 1) \div Len(FlightCodes)) + 1],
     destination |-> FlightCodes[((n - 1) % Len(FlightCodes)) + 1]]

\* The flight lists of up to MaxFlights rows, each combination of rows once
\* (every step of the script treats the rows one by one or counts them).
FlightLists ==
    UNION {{[k \in 1..n |-> FlightRow(s[k])] :
                s \in {t \in [1..n -> 1..(Len(FlightCodes) * Len(FlightCodes))] :
                          \A k \in 1..(n - 1) : t[k] <= t[k + 1]}} :
           n \in 0..MaxFlights}

\* df[df['origin'] != df['destination']]
DifferentEnds(flights) ==
    SelectSeq(flights, LAMBDA r : NotEqual(r.origin, r.destination))

NoAirport == Airport(NaN, NaN, NaN, NaN, NaN)

\* A row with the columns of the airport it was matched with, suffixed.
WithAirport(row, a, suffix) ==
    row @@ (("City" \o suffix) :> a.City) @@ (("Country" \o suffix) :> a.Country)
        @@ (("Latitude" \o suffix) :> a.Latitude)
        @@ (("Longitude" \o suffix) :> a.Longitude)

\* left.merge(right, left_on=col, right_on='ICAO', how='left'): every left
\* row once per right row with an equal key, a missing key being equal to a
\* missing key, and once with missing cells when no right row has its key.
Merge(left, col, right, suffix) ==
    Flatten([k \in 1..Len(left) |->
        LET matched == SelectSeq(right, LAMBDA a : a.ICAO = left[k][col])
        IN  IF matched = <<>>
            THEN <<WithAirport(left[k], NoAirport, suffix)>>
            ELSE [j \in 1..Len(matched) |-> WithAirport(left[k], matched[j], suffix)]])

\* (Country == 'United States') | (Country_destination == 'United States')
InUSA(t) ==
    SelectSeq(t, LAMBDA r : \/ Equal(r.Country, Some("United States"))
                            \/ Equal(r.Country_destination, Some("United States")))

\* Country != Country_destination
International(t) ==
    SelectSeq(t, LAMBDA r : NotEqual(r.Country, r.Country_destination))

RouteColumns ==
    {"City", "Country", "Latitude", "Longitude", "City_destination",
     "Country_destination", "Latitude_destination", "Longitude_destination"}

\* The rows with notna() in all eight columns.
Clean(t) == SelectSeq(t, LAMBDA r : \A c \in RouteColumns : r[c] # NaN)

\* What load_data returns for the flight lists and the airports table.
LoadedData(flights, table) ==
    LET flights_with_origin == Merge(DifferentEnds(flights), "origin", table, "")
        flights_with_airport_info ==
            Merge(flights_with_origin, "destination", table, "_destination")
    IN  Clean(International(InUSA(flights_with_airport_info)))

\* groupby([...]).size().reset_index(name='flight_count'), as a set of rows.
RouteKey(r) == [c \in RouteColumns |-> r[c]]
GroupBySize(t) ==
    {key @@ ("flight_count" :>
                Cardinality({k \in 1..Len(t) : RouteKey(t[k]) = key})) :
        key \in {RouteKey(t[k]) : k \in 1..Len(t)}}

MinCount(routes) ==
    CHOOSE n \in {r.flight_count : r \in routes} :
        \A r \in routes : n <= r.flight_count
MaxCount(routes) ==
    CHOOSE n \in {r.flight_count : r \in routes} :
        \A r \in routes : n >= r.flight_count

\* The script starts with the files read; the export function is no part of
\* it, and its variables stay at the start of one call.
InitDashboard ==
    /\ CallBegins(CHOOSE c \in ScenarioCases : c.f = Absent /\ c.l = LineageMap(0, FALSE))
    /\ at = "load"
    /\ all_flights \in FlightLists
    /\ airports_df \in AirportsTables
    /\ graph_data = <<>>
    /\ route_data = {}
    /\ flight_threshold = NaN
    /\ filtered_routes = {}
    /\ fig = {}
    /\ script_outcome = "running"

exportVars ==
    <<inputs, nodeVars, linkVars, pc, output_data, file, file_before, outcome, run,
      rng, set_order>>

\* The script stops with an exception.
ScriptRaises(exc) ==
    /\ at' = "done"
    /\ script_outcome' = exc

\* graph_data = load_data()  (lines 15-79)
LoadData ==
    /\ at = "load"
    /\ graph_data' = LoadedData(all_flights, airports_df)
    /\ at' = "aggregate"
    /\ UNCHANGED <<exportVars, all_flights, airports_df, route_data, flight_threshold,
                   filtered_routes, fig, script_outcome>>

\* route_data = graph_data.groupby(...).size()  (lines 82-85)
Aggregate ==
    /\ at = "aggregate"
    /\ route_data' = GroupBySize(graph_data)
    /\ at' = "slider"
    /\ UNCHANGED <<exportVars, all_flights, airports_df, graph_data, flight_threshold,
                   filtered_routes, fig, script_outcome>>

\* The values the slider can return: its initial value, or a value the user
\* set, min_value plus a number of steps and at most max_value.
SliderValues(min_value, max_value, value) ==
    {value} \cup {v \in min_value..max_value : (v - min_value) % SliderStep = 0}

\* Lines 91-101.  With no route, min() is missing and int() of it raises
\* ValueError; an initial value below min_value is refused by the slider;
\* with min_value = max_value the slider returns that value or refuses its
\* arguments, depending on the version of the library.
Slider ==
    /\ at = "slider"
    /\ IF route_data = {}
       THEN /\ ScriptRaises("ValueError")
            /\ UNCHANGED flight_threshold
       ELSE LET min_flights == MinCount(route_data)
                max_flights == MaxCount(route_data)
                min_value == min_flights
                max_value == Min(SliderCap, max_flights)
                value == Min(SliderDefault, max_flights)
            IN  \/ /\ value >= min_value
                   /\ \E v \in SliderValues(min_value, max_value, value) :
                          flight_threshold' = Some(v)
                   /\ at' = "filter"
                   /\ UNCHANGED script_outcome
                \/ /\ value < min_value \/ min_value = max_value
                   /\ ScriptRaises("StreamlitAPIException")
                   /\ UNCHANGED flight_threshold
    /\ UNCHANGED <<exportVars, all_flights, airports_df, graph_data, route_data,
                   filtered_routes, fig>>

\* filtered_routes = route_data[route_data['flight_count'] >= flight_threshold]
FilterRoutes ==
    /\ at = "filter"
    /\ filtered_routes' = {r \in route_data : r.flight_count >= flight_threshold[1]}
    /\ at' = "draw"
    /\ UNCHANGED <<exportVars, all_flights, airports_df, graph_data, route_data,
                   flight_threshold, fig, script_outcome>>

\* width = 1 + (count - min_count) / (max_count - min_count) * 3, as the
\* fraction <<numerator, denominator>>.
LineWidth(count, min_count, max_count) ==
    <<(max_count - min_count) + 3 * (count - min_count), max_count - min_count>>

\* `normalized` of get_color_from_count, as the fraction <<numerator,
\* denominator>>: 0.5 when max_count = min_count.
GetColorFromCount(count, min_count, max_count) ==
    IF max_count = min_count
    THEN <<1, 2>>
    ELSE <<count - min_count, max_count - min_count>>

\* Lines 153-176: one line trace per route.  With max_count = min_count the
\* width divides zero by zero: the division raises, or gives a missing
\* width that the figure takes or refuses.
DrawRoutes ==
    /\ at = "draw"
    /\ IF filtered_routes # {} /\ MaxCount(filtered_routes) = MinCount(filtered_routes)
       THEN \/ ScriptRaises("ZeroDivisionError") /\ UNCHANGED fig
            \/ ScriptRaises("ValueError") /\ UNCHANGED fig
            \/ /\ fig' = {[route |-> r, width |-> NaN,
                            color |-> GetColorFromCount(r.flight_count,
                                                        MinCount(filtered_routes),
                                                        MaxCount(filtered_routes))] :
                              r \in filtered_routes}
               /\ at' = "done"
               /\ script_outcome' = "rendered"
       ELSE /\ fig' = {[route |-> r,
                        width |-> Some(LineWidth(r.flight_count,
                                                 MinCount(filtered_routes),
                                                 MaxCount(filtered_routes))),
                        color |-> GetColorFromCount(r.flight_count,
                                                    MinCount(filtered_routes),
                                                    MaxCount(filtered_routes))] :
                          r \in filtered_routes}
            /\ at' = "done"
            /\ script_outcome' = "rendered"
    /\ UNCHANGED <<exportVars, all_flights, airports_df, graph_data, route_data,
                   flight_threshold, filtered_routes>>

NextDashboard ==
    \/ LoadData
    \/ Aggregate
    \/ Slider
    \/ FilterRoutes
    \/ DrawRoutes

SpecDashboard == InitDashboard /\ [][NextDashboard]_vars

(***************************************************************************)
(* C19: every flight load_data retains has an origin different from its    *)
(* destination, has exactly one of its two ends in the United States and   *)
(* the other in another country, and has city, country, latitude and       *)
(* longitude of both ends; and every route drawn has a flight_count of at  *)
(* least the threshold selected.                                           *)
(***************************************************************************)
UnitedStates == Some("United States")

C19_RetainedFlights ==
    /\ \A k \in 1..Len(graph_data) :
          LET r == graph_data[k]
          IN  /\ r.origin # r.destination
              /\ r.Country # r.Country_destination
              /\ (r.Country = UnitedStates) # (r.Country_destination = UnitedStates)
              /\ \A c \in RouteColumns : r[c] # NaN
    /\ \A trace \in fig : trace.route.flight_count >= flight_threshold[1]

(***************************************************************************)
(* C21: the export call does not modify its inputs: no step of it changes  *)
(* the node-index mappings, the reverse mappings passed in, sample_size,   *)
(* the auxiliary table or the graph's edge index and attribute arrays; of  *)
(* what outlives the call only the file at the output path changes.        *)
(***************************************************************************)
C21_InputsUnchanged == [][inputs' = inputs]_vars

\* A call that subsampled a relation's edges has returned and has written
\* the file.
C21_Witness ==
    /\ pc = "done"
    /\ outcome = "returned"
    /\ file # file_before
    /\ \E rel \in DOMAIN hg : Subsamples(Len(hg[rel].edge_index), MaxEdgesPerType)

(***************************************************************************)
(* C22: an airport of the mapping that the auxiliary table has as an       *)
(* origin takes its attributes from its first origin row, also when the    *)
(* table has it as a destination; an airport the table has only as a       *)
(* destination takes them from its first destination row; a row side whose *)
(* code is not in the mapping gives no attribute to any node, and every    *)
(* node's code is in the mapping.                                          *)
(***************************************************************************)
TableRows == IF flights_df = None THEN <<>> ELSE flights_df[1].rows
TableColumns == IF flights_df = None THEN {} ELSE flights_df[1].columns

\* The first row that has the code in the column.
FirstAs(col, code) ==
    CHOOSE r \in 1..Len(TableRows) :
        /\ TableRows[r][col] = code
        /\ \A q \in 1..(r - 1) : TableRows[q][col] # code

\* The node attribute `attr` of node n is the cell of row r in column col.
TakenFrom(n, attr, r, col) ==
    col \in TableColumns => n[attr] = Cell(r, col)

\* No attribute of node n is a cell of row r on the given side.
NothingFrom(n, r, suffix) ==
    /\ n.lat # Cell(r, "Latitude" \o suffix)
    /\ n.lon # Cell(r, "Longitude" \o suffix)
    /\ n.city # Cell(r, "City" \o suffix)
    /\ n.country # Cell(r, "Country" \o suffix)

C22_OriginRowFirst ==
    \A i \in 1..Len(airports) :
        LET n == airports[i]
        IN  /\ n.code \in DOMAIN airport_to_idx
            /\ HasRowAs("origin", n.code) =>
                  LET r == FirstAs("origin", n.code)
                  IN  /\ TakenFrom(n, "lat", r, "Latitude")
                      /\ TakenFrom(n, "lon", r, "Longitude")
                      /\ TakenFrom(n, "city", r, "City")
                      /\ TakenFrom(n, "country", r, "Country")
                      /\ \A q \in 1..Len(TableRows) : NothingFrom(n, q, "_destination")
            /\ (~HasRowAs("origin", n.code) /\ HasRowAs("destination", n.code)) =>
                  LET r == FirstAs("destination", n.code)
                  IN  /\ TakenFrom(n, "lat", r, "Latitude_destination")
                      /\ TakenFrom(n, "lon", r, "Longitude_destination")
                      /\ TakenFrom(n, "city", r, "City_destination")
                      /\ TakenFrom(n, "country", r, "Country_destination")
            /\ \A q \in 1..Len(TableRows) :
                  /\ TableRows[q].origin # n.code => NothingFrom(n, q, "")
                  /\ TableRows[q].destination # n.code => NothingFrom(n, q, "_destination")

\* The table has every column; JFK is a destination in the first row and an
\* origin in the second, LAX is only a destination, and a row names a code
\* that is not in the mapping; the airport nodes are built.
C22_Witness ==
    /\ Len(airports) = 2
    /\ Len(TableRows) = 2
    /\ TableColumns = OriginColumns \cup DestinationColumns
    /\ TableRows[1] = [origin |-> "XXX", destination |-> "JFK"]
    /\ TableRows[2] = [origin |-> "JFK", destination |-> "LAX"]

(***************************************************************************)
(* C23: for every non-empty set of filtered routes the script draws every  *)
(* route with a colour intensity in [0, 1] and a line width in [1, 4],     *)
(* both defined, also when all filtered routes have the same flight_count. *)
(***************************************************************************)
\* The fraction f = <<numerator, denominator>> is a number in [lo, hi].
Within(f, lo, hi) ==
    /\ f[2] > 0
    /\ lo * f[2] <= f[1]
    /\ f[1] <= hi * f[2]

C23_WidthDefined ==
    (at = "done" /\ filtered_routes # {}) =>
        /\ script_outcome = "rendered"
        /\ {trace.route : trace \in fig} = filtered_routes
        /\ \A trace \in fig :
              /\ Within(trace.color, 0, 1)
              /\ trace.width # NaN
              /\ Within(trace.width[1], 1, 4)
====
